---- MODULE Spec2Model ----
(***************************************************************************)
(* Model of docker/simple-protocols/server.py: six ProtocolServer          *)
(* listeners (Echo, Discard, Daytime, Chargen, Time, Finger), each         *)
(* accepting connections and running one handler thread per connection.    *)
(* Bytes are integers 0..255, byte strings are sequences of them.          *)
(***************************************************************************)
EXTENDS Integers, Sequences, FiniteSets, TLC

(* ------------------------------ bounds -------------------------------- *)

\* connection slots of the model (connections accepted over a run)
NConn == 2
\* bytes a peer sends to one Echo / Discard session
MaxLen == 3
\* the same, in the specifications that run several sessions side by side
SmallLen == 1
\* "Error accepting connection" lines the log takes over a run
MaxAcceptErrs == 2
\* longest short prefix a failed sendall is taken to have delivered
MaxPartial == 2
\* lines one Chargen session emits: past one turn of the 94-character cycle
MaxLines == 95
\* the same, in the specifications that run all six protocols
SmallLines == 2

(* ------------------------- program constants -------------------------- *)

SESSION_TIMEOUT == 900
FINGER_QUERY_TIMEOUT == 30
ECHO_BUFSIZE == 4096
DISCARD_BUFSIZE == 4096

\* main(): the servers list, name -> port
Servers ==
    [Echo |-> 7, Discard |-> 9, Daytime |-> 13, Chargen |-> 19, Time |-> 37,
     Finger |-> 79]

Protos == DOMAIN Servers

Conns == 1..NConn

(* ------------------------------ helpers ------------------------------- *)

Take(s, n) == SubSeq(s, 1, n)

Drop(s, n) == SubSeq(s, n + 1, Len(s))

IsPrefix(s, t) == Len(s) <= Len(t) /\ Take(t, Len(s)) = s

Min(S) == CHOOSE x \in S : \A y \in S : x <= y

\* non-empty sequences over S of length at most n
SeqsUpTo(S, n) == UNION {[1..k -> S] : k \in 1..n}

\* the bytes the peer of connection c sends: 'A','B' on 1, 'C','D' on 2, ...
PeerBytes(c) == {63 + 2 * c, 64 + 2 * c}

(* ------------------------------- state -------------------------------- *)

VARIABLES
    lst,            \* lst[p]: where listener thread p is: "init", "accepting", "dead"
    acceptErrors,   \* "Error accepting connection" lines in the process log
    conn,           \* conn[c]: the connection in slot c and the session that owns it
    main            \* the main thread: "running" (in its sleep loop) or "interrupted"

vars == <<lst, acceptErrors, conn, main>>

\* The listener and handler threads are daemon threads: they run while the
\* main thread does.
Running == main = "running"

\* A slot no connection has been accepted into.
FreeConn ==
    [proto |-> "none", pc |-> "free", tmo |-> 0,
     rd |-> <<>>, wr |-> <<>>, data |-> <<>>,
     offset |-> 0, nlines |-> 0, clock |-> <<0, 0>>,
     age |-> 0, waited |-> 0, blocked |-> 0, inq |-> <<>>,
     ops |-> <<>>, log |-> <<>>, nclose |-> 0]

Init ==
    /\ lst = [p \in Protos |-> "init"]
    /\ acceptErrors = 0
    /\ conn = [c \in Conns |-> FreeConn]
    /\ main = "running"

(* ----------------------- operations on a socket ----------------------- *)

\* Time on a connection.  age: tenths of a second since accept returned it.
\* waited: seconds of the socket's timeout the call in progress has used up.
\* blocked: seconds the call in progress has been blocked.
TENTHS == 10

\* the timeout a blocking call of the session runs under; settimeout(30) is
\* the first statement of the Finger handler
Deadline(s) == IF s.pc = "query" THEN FINGER_QUERY_TIMEOUT ELSE s.tmo

\* one deadline for the whole session: the time the earlier calls took stays
\* on the clock of the next call
DeadlineKeptRunning(s) == s.waited

\* The timeout of a socket bounds each call by itself: a call that returns
\* leaves nothing on the clock of the next one.
DeadlineAfterCall(s) == 0

\* a blocking recv or sendall returns
Completed(s) == [s EXCEPT !.waited = DeadlineAfterCall(s), !.blocked = 0]

\* a blocking call stays blocked until its timeout is used up, then raises
\* socket.timeout
TimedOut(s) ==
    LET rest == Deadline(s) - s.waited
    IN [s EXCEPT !.age = @ + TENTHS * rest, !.blocked = @ + rest,
                 !.waited = @ + rest]

\* record one call on the connection's socket and the time it took
Op(s, o) ==
    LET t == IF o \in {"recv_timeout", "sendall_timeout"} THEN TimedOut(s)
             ELSE IF o \in {"recv", "recv_eof", "sendall"} THEN Completed(s)
             ELSE s
    IN [t EXCEPT !.ops = Append(@, o)]

\* one logging.info / logging.error line of the session
Log(s, level) == [s EXCEPT !.log = Append(@, level)]

\* client.close()
Close(s) == [Op(s, "close") EXCEPT !.nclose = @ + 1]

\* the handler function returns: the thread ends
Return(s) == [s EXCEPT !.pc = "done"]

\* a timeout handler that tells the peer before it lets the session end
ExceptTimeoutNotify(s, exc) ==
    IF exc = "timeout" THEN Op(Log(s, "info_timeout"), "sendall")
    ELSE Log(s, "error")

\* except socket.timeout / except Exception of echo, discard, chargen, finger
ExceptTimeoutOrError(s, exc) ==
    IF exc = "timeout" THEN Log(s, "info_timeout") ELSE Log(s, "error")

\* except Exception of daytime and time (socket.timeout is an Exception)
ExceptError(s, exc) == Log(s, "error")

\* how many bytes of data a sendall that raises may have delivered before:
\* any proper prefix; of the long ones the model takes the longest
PartialLens(data) ==
    {n \in 0..(Len(data) - 1) : n <= MaxPartial \/ n = Len(data) - 1}

\* Time passes while the session of slot c is blocked in recv or sendall:
\* half the timeout at a step, and less than the timeout in all.
Wait(c) ==
    /\ Running
    /\ conn[c].pc \in {"recv", "send", "query", "respond"}
    /\ LET s == conn[c]
           q == Deadline(s) \div 2
       IN /\ s.waited + q < Deadline(s)
          /\ conn' = [conn EXCEPT ![c] =
               [s EXCEPT !.age = @ + TENTHS * q, !.waited = @ + q,
                         !.blocked = @ + q]]
    /\ UNCHANGED <<lst, acceptErrors, main>>

(* ------------------------------ listener ------------------------------ *)

\* bind and listen in a try whose handler ends the process (os._exit)
BindFailureExits(p) ==
    /\ lst' = [lst EXCEPT ![p] = "dead"]
    /\ main' = "exited"

\* An exception of bind or listen is caught nowhere: it ends the thread that
\* runs start(), and no other thread.
BindFailure(p) ==
    /\ lst' = [lst EXCEPT ![p] = "dead"]
    /\ UNCHANGED main

\* ProtocolServer.start, lines 39-43: socket, setsockopt, bind, listen.
Bind(p) ==
    /\ Running
    /\ lst[p] = "init"
    /\ \/ lst' = [lst EXCEPT ![p] = "accepting"] /\ UNCHANGED main
       \/ BindFailure(p)
    /\ UNCHANGED <<acceptErrors, conn>>

\* first statement of each handler
EntryPc(p) ==
    CASE p = "Echo" -> "recv"
      [] p = "Discard" -> "recv"
      [] p = "Daytime" -> "send"
      [] p = "Chargen" -> "send"
      [] p = "Time" -> "send"
      [] p = "Finger" -> "query"

\* the session thread.start() creates: handler(client, addr) about to run
NewSession(p) ==
    [FreeConn EXCEPT !.proto = p, !.pc = EntryPc(p), !.tmo = SESSION_TIMEOUT]

\* an accepted connection no handler thread was started for
Orphan(p, timeoutSet) ==
    [FreeConn EXCEPT !.proto = p, !.pc = "orphan",
                     !.tmo = IF timeoutSet THEN SESSION_TIMEOUT ELSE 0]

\* the handler threads listener p started that have not returned
InFlight(p) ==
    {c \in Conns : conn[c].proto = p
                   /\ conn[c].pc \notin {"free", "orphan", "done"}}

\* accept() returned and "client" names the new socket: the socket of an
\* orphan has lost its last reference.  The runtime closes an unreferenced
\* socket when it collects it (collected = TRUE: at once, as CPython does) or
\* at some later time the program does not control (collected = FALSE).
Rebind(p, collected) ==
    [c \in Conns |->
       IF collected /\ conn[c].proto = p /\ conn[c].pc = "orphan"
                    /\ conn[c].nclose = 0
       THEN Close(conn[c]) ELSE conn[c]]

\* the try around the whole loop in place of its body: the error is logged,
\* start() returns and the listener thread ends
AcceptExceptFatal(p) ==
    /\ acceptErrors' = acceptErrors + 1
    /\ lst' = [lst EXCEPT ![p] = "dead"]

\* the except clause of the accept loop: log the error, go round the loop again
AcceptExcept(p) ==
    /\ acceptErrors' = acceptErrors + 1
    /\ UNCHANGED lst

\* The body of the accept loop, lines 46-57, taking slots from C: accept,
\* settimeout, Thread(...).start(), any of which may raise.
AcceptOutcome(p, C, outcome) ==
    \/ /\ outcome = "accept_fail"
       /\ acceptErrors < MaxAcceptErrs
       /\ AcceptExcept(p)
       /\ UNCHANGED conn
    \/ /\ outcome # "accept_fail"
       /\ \E c \in C, collected \in BOOLEAN :
            /\ conn[c].pc = "free"
            /\ \A d \in C : conn[d].pc = "free" => c <= d
            /\ \/ /\ outcome = "ok"
                  /\ conn' = [Rebind(p, collected) EXCEPT ![c] = NewSession(p)]
                  /\ UNCHANGED <<lst, acceptErrors>>
               \/ /\ outcome \in {"settimeout_fail", "start_fail"}
                  /\ acceptErrors < MaxAcceptErrs
                  /\ conn' = [Rebind(p, collected) EXCEPT
                                ![c] = Orphan(p, outcome = "start_fail")]
                  /\ AcceptExcept(p)

\* thread.join() after thread.start(): the loop comes back to accept only
\* when no handler thread of this listener is running
AcceptAfterJoin(p, C) ==
    /\ Running
    /\ lst[p] = "accepting"
    /\ InFlight(p) = {}
    /\ \E outcome \in {"accept_fail", "settimeout_fail", "start_fail", "ok"} :
         AcceptOutcome(p, C, outcome)
    /\ UNCHANGED main

\* One iteration of "while True", lines 45-57.  thread.start() returns as
\* soon as the handler thread runs; the loop waits for no handler.
Accept(p, C) ==
    /\ Running
    /\ lst[p] = "accepting"
    /\ \E outcome \in {"accept_fail", "settimeout_fail", "start_fail", "ok"} :
         AcceptOutcome(p, C, outcome)
    /\ UNCHANGED main

\* KeyboardInterrupt in the sleep loop of main(): main returns and the
\* process ends, its daemon threads with it
Interrupt ==
    /\ Running
    /\ main' = "interrupted"
    /\ UNCHANGED <<lst, acceptErrors, conn>>

(* -------------------------------- Echo -------------------------------- *)

\* client.close() in the loop with no break or return behind it: the handler
\* goes on with the closed socket
EchoFinallyNoReturn(s) == Close(s)

\* finally: client.close(), then the handler returns
EchoFinally(s) == Return(Close(s))

\* "client" as a module-level name in place of the handler's argument: the
\* finally of a session whose recv ended it closes the connection accepted
\* last, which another session may be using
EchoRecvSharedClient(c, maxLen) ==
    /\ conn[c].proto = "Echo" /\ conn[c].pc = "recv"
    /\ Running
    /\ UNCHANGED <<lst, acceptErrors, main>>
    /\ LET s == conn[c]
           latest == CHOOSE d \in InFlight("Echo") :
                        \A e \in InFlight("Echo") : e <= d
       IN
       \/ \E d \in SeqsUpTo(PeerBytes(c), maxLen) :
            /\ Len(s.rd) + Len(d) <= maxLen
            /\ conn' = [conn EXCEPT ![c] =
                 [Op(s, "recv") EXCEPT !.rd = @ \o d, !.data = d, !.pc = "send"]]
       \/ conn' = [conn EXCEPT ![c] = Return(Op(s, "recv_eof")),
                               ![latest] = Close(@)]
       \/ \E exc \in {"timeout", "error"} :
            conn' = [conn EXCEPT
              ![c] = Return(ExceptTimeoutOrError(Op(s, "recv_" \o exc), exc)),
              ![latest] = Close(@)]

\* data = client.recv(4096), with "if not data: break" and the except clauses
EchoRecv(c, maxLen) ==
    /\ conn[c].proto = "Echo" /\ conn[c].pc = "recv"
    /\ Running
    /\ UNCHANGED <<lst, acceptErrors, main>>
    /\ LET s == conn[c] IN
       \/ \E d \in SeqsUpTo(PeerBytes(c), maxLen) :
            /\ Len(d) <= ECHO_BUFSIZE
            /\ Len(s.rd) + Len(d) <= maxLen
            /\ conn' = [conn EXCEPT ![c] =
                 [Op(s, "recv") EXCEPT !.rd = @ \o d, !.data = d, !.pc = "send"]]
       \/ conn' = [conn EXCEPT ![c] = EchoFinally(Op(s, "recv_eof"))]
       \/ \E exc \in {"timeout", "error"} :
            conn' = [conn EXCEPT ![c] =
              EchoFinally(ExceptTimeoutOrError(Op(s, "recv_" \o exc), exc))]

\* client.send(data) in place of sendall: one segment, here one byte, goes out
EchoPayloadOneSend(s) == Take(s.data, 1)

\* a module-level buffer in place of the local "data": the handler threads
\* share it, and a sender finds what the lowest-numbered reader left there
EchoPayloadShared(s) ==
    conn[Min({c \in Conns : conn[c].proto = "Echo" /\ conn[c].pc = "send"})].data

\* what a completed sendall(data) of the Echo handler puts on the wire
EchoPayload(s) == s.data

\* client.sendall(data), with the except clauses
EchoSend(c) ==
    /\ conn[c].proto = "Echo" /\ conn[c].pc = "send"
    /\ Running
    /\ UNCHANGED <<lst, acceptErrors, main>>
    /\ LET s == conn[c] IN
       \/ conn' = [conn EXCEPT ![c] =
            [Op(s, "sendall") EXCEPT !.wr = @ \o EchoPayload(s), !.data = <<>>,
                                     !.pc = "recv"]]
       \/ \E exc \in {"timeout", "error"}, n \in PartialLens(EchoPayload(s)) :
            conn' = [conn EXCEPT ![c] =
              EchoFinally(ExceptTimeoutOrError(
                [Op(s, "sendall_" \o exc) EXCEPT
                   !.wr = @ \o Take(EchoPayload(s), n)], exc))]

(* ------------------------------ Discard ------------------------------- *)

DiscardFinally(s) == Return(Close(s))

\* the Echo loop body left in place: the data goes back
DiscardPayloadEcho(d) == d

\* what the Discard handler sends for the data it read: nothing
DiscardPayload(d) == <<>>

\* data = client.recv(4096); the data is dropped
DiscardRecv(c, maxLen) ==
    /\ conn[c].proto = "Discard" /\ conn[c].pc = "recv"
    /\ Running
    /\ UNCHANGED <<lst, acceptErrors, main>>
    /\ LET s == conn[c] IN
       \/ \E d \in SeqsUpTo(PeerBytes(c), maxLen) :
            /\ Len(d) <= DISCARD_BUFSIZE
            /\ Len(s.rd) + Len(d) <= maxLen
            /\ conn' = [conn EXCEPT ![c] =
                 [Op(s, "recv") EXCEPT !.rd = @ \o d,
                                       !.wr = @ \o DiscardPayload(d)]]
       \/ conn' = [conn EXCEPT ![c] = DiscardFinally(Op(s, "recv_eof"))]
       \/ \E exc \in {"timeout", "error"} :
            conn' = [conn EXCEPT ![c] =
              DiscardFinally(ExceptTimeoutOrError(Op(s, "recv_" \o exc), exc))]

(* ------------------------ text and byte strings ----------------------- *)

\* the ASCII characters with codes 32..95 and 97..126, in order
PrintableLow ==
    " !\"#$%&'()*+,-./0123456789:;<=>?@ABCDEFGHIJKLMNOPQRSTUVWXYZ[\\]^_"

PrintableHigh == "abcdefghijklmnopqrstuvwxyz{|}~"

\* the codes of the characters the literals of the program hold
LiteralCodes == {9, 10, 13} \cup (32..95) \cup (97..126)

\* chr(b), for b in LiteralCodes
Chr(b) ==
    CASE b \in 32..95 -> SubSeq(PrintableLow, b - 31, b - 31)
      [] b \in 97..126 -> SubSeq(PrintableHigh, b - 96, b - 96)
      [] b = 9 -> "\t"
      [] b = 10 -> "\n"
      [] b = 13 -> "\r"

\* ord(ch)
OrdTable == [ch \in {Chr(b) : b \in LiteralCodes} |->
                CHOOSE b \in LiteralCodes : Chr(b) = ch]

Ord(ch) == OrdTable[ch]

\* a str literal as its sequence of code points
Str(lit) == [i \in 1..Len(lit) |-> Ord(SubSeq(lit, i, i))]

\* str.encode('ascii'): the code points as bytes; raises on a code above 127
CanEncodeAscii(text) == \A i \in 1..Len(text) : text[i] < 128

\* bytes.decode('ascii', errors='ignore'): bytes above 127 are dropped
IsAscii(b) == b < 128

DecodeAsciiIgnore(raw) == SelectSeq(raw, IsAscii)

\* the characters str.strip() removes: \t \n \v \f \r, \x1c..\x1f and space
Whitespace == (9..13) \cup (28..32)

RECURSIVE LStripSet(_, _)
\* text without its leading characters that are in S
LStripSet(text, S) ==
    IF text # <<>> /\ Head(text) \in S THEN LStripSet(Tail(text), S) ELSE text

RECURSIVE RStripSet(_, _)
\* text without its trailing characters that are in S
RStripSet(text, S) ==
    IF text # <<>> /\ text[Len(text)] \in S
    THEN RStripSet(Take(text, Len(text) - 1), S)
    ELSE text

\* str.strip()
Strip(text) == RStripSet(LStripSet(text, Whitespace), Whitespace)

CRLF == <<13, 10>>

(* ------------------------------ Daytime ------------------------------- *)

DayNames ==
    <<"Monday", "Tuesday", "Wednesday", "Thursday", "Friday", "Saturday",
      "Sunday">>

MonthNames ==
    <<"January", "February", "March", "April", "May", "June", "July",
      "August", "September", "October", "November", "December">>

Digit(n) == SubSeq("0123456789", n + 1, n + 1)

\* %d, %H, %M, %S: two digits, zero padded
Pad2(n) == Digit(n \div 10) \o Digit(n % 10)

\* %Y of a four-digit year
Year4(y) ==
    Digit(y \div 1000) \o Digit((y \div 100) % 10) \o Digit((y \div 10) % 10)
    \o Digit(y % 10)

\* values datetime.now() returns (weekday: Monday is 1); naive, so %Z is ''
DaytimeSamples ==
    {[year |-> 2026, month |-> 11, day |-> 5, hour |-> 0, minute |-> 43,
      second |-> 7, weekday |-> 4],
     [year |-> 2024, month |-> 2, day |-> 16, hour |-> 12, minute |-> 0,
      second |-> 0, weekday |-> 5]}

\* strftime('%A, %B %d, %Y %H:%M:%S %Z\r\n')
DaytimeFormat(dt) ==
    Str(DayNames[dt.weekday] \o ", " \o MonthNames[dt.month] \o " "
        \o Pad2(dt.day) \o ", " \o Year4(dt.year) \o " " \o Pad2(dt.hour)
        \o ":" \o Pad2(dt.minute) \o ":" \o Pad2(dt.second) \o " " \o ""
        \o "\r\n")

\* close() as the last statement of the try body only: skipped on this path
DaytimeFinallyNoClose(s) == Return(s)

DaytimeFinally(s) == Return(Close(s))

\* the whole handler: format, encode, sendall, except, finally
DaytimeSend(c) ==
    /\ conn[c].proto = "Daytime" /\ conn[c].pc = "send"
    /\ Running
    /\ UNCHANGED <<lst, acceptErrors, main>>
    /\ \E dt \in DaytimeSamples :
         LET s == conn[c]
             current_time == DaytimeFormat(dt)
         IN
         IF ~CanEncodeAscii(current_time)
         THEN conn' = [conn EXCEPT ![c] =
                DaytimeFinally(ExceptError(s, "error"))]
         ELSE
           \/ conn' = [conn EXCEPT ![c] =
                DaytimeFinally([Op(s, "sendall") EXCEPT
                                  !.data = current_time,
                                  !.wr = @ \o current_time])]
           \/ \E exc \in {"timeout", "error"}, n \in PartialLens(current_time) :
                conn' = [conn EXCEPT ![c] =
                  DaytimeFinally(ExceptError(
                    [Op(s, "sendall_" \o exc) EXCEPT
                       !.data = current_time,
                       !.wr = @ \o Take(current_time, n)], exc))]

(* ------------------------------ Chargen ------------------------------- *)

CHARGEN_LINE_LENGTH == 72

CHARGEN_CYCLE == 94

CHARGEN_FIRST == 33

\* char_code = ((i + offset) % 94) + 33, for i in range(line_length)
ChargenCharCode(i, offset) == ((i + offset) % CHARGEN_CYCLE) + CHARGEN_FIRST

\* the line the loop body builds for the current offset, '\r\n' included
ChargenLine(offset) ==
    [i \in 1..CHARGEN_LINE_LENGTH |-> ChargenCharCode(i - 1, offset)] \o CRLF

\* the cycle taken one too long: offset reaches 94
ChargenAdvanceOffByOne(offset) == (offset + 1) % (CHARGEN_CYCLE + 1)

\* offset = (offset + 1) % 94
ChargenAdvance(offset) == (offset + 1) % CHARGEN_CYCLE

ChargenFinally(s) == Return(Close(s))

\* time.sleep(0.1), in tenths of a second
CHARGEN_SLEEP == 1

\* the loop left when the client has shut down its side of the connection
ChargenGoesOnUntilFin(s) == \A i \in 1..Len(s.inq) : s.inq[i][1] # "fin"

\* while True
ChargenGoesOn(s) == TRUE

\* The client of a Chargen connection sends bytes, or shuts down its sending
\* side.  chargen_handler calls no recv: what arrives stays in the receive
\* queue of the socket, inq, noted with the number of lines sent before it.
ChargenClient(c) ==
    /\ Running
    /\ conn[c].proto = "Chargen" /\ conn[c].pc = "send"
    /\ \E e \in {"data", "fin"} :
         /\ \A i \in 1..Len(conn[c].inq) : conn[c].inq[i][1] \notin {e, "fin"}
         /\ conn' = [conn EXCEPT ![c].inq = Append(@, <<e, conn[c].nlines>>)]
    /\ UNCHANGED <<lst, acceptErrors, main>>

\* One pass of the loop: test, build the line, sendall, advance, sleep.  data is the
\* local "line"; wr keeps what the latest sendall delivered, nlines counts the
\* lines delivered before.
ChargenSend(c, maxLines) ==
    /\ conn[c].proto = "Chargen" /\ conn[c].pc = "send"
    /\ Running
    /\ UNCHANGED <<lst, acceptErrors, main>>
    /\ LET s == conn[c]
           line == ChargenLine(s.offset)
       IN
       IF ~ChargenGoesOn(s)
       THEN conn' = [conn EXCEPT ![c] = ChargenFinally(s)]
       ELSE
         \/ /\ s.nlines < maxLines
            /\ conn' = [conn EXCEPT ![c] =
                 [Op(s, "sendall") EXCEPT !.data = line, !.wr = line,
                                          !.nlines = @ + 1,
                                          !.offset = ChargenAdvance(@),
                                          !.age = @ + CHARGEN_SLEEP]]
         \/ \E exc \in {"timeout", "error"}, n \in PartialLens(line) :
              conn' = [conn EXCEPT ![c] =
                ChargenFinally(ExceptTimeoutOrError(
                  [Op(s, "sendall_" \o exc) EXCEPT
                     !.data = line, !.wr = Take(line, n)], exc))]

(* -------------------------------- Time -------------------------------- *)

\* EPOCH_OFFSET = 2208988800 = 33706 * 65536 + 32384, as two 16-bit halves
EPOCH_OFFSET_HI == 33706

EPOCH_OFFSET_LO == 32384

Half == 256 * 256

\* values of int(time.time()) as <<high half, low half>>: 1970, 2026, the
\* seconds around 2036-02-07 06:28:16 UTC, and the last 32-bit second
TimeSamples ==
    {<<hi, lo>> : hi \in {0, 27371, 31829, 31830, 65535},
                  lo \in {0, 33151, 33152, 65535}}

\* int(time.time()) + EPOCH_OFFSET, an unbounded integer: [over, hi, lo]
\* stands for over * 2^32 + hi * 2^16 + lo
TimePlusOffset(t) ==
    LET lo == t[2] + EPOCH_OFFSET_LO
        hi == t[1] + EPOCH_OFFSET_HI + (lo \div Half)
    IN [over |-> hi \div Half, hi |-> hi % Half, lo |-> lo % Half]

\* struct.pack('!I', v) raises struct.error unless 0 <= v < 2^32
CanPackU32(v) == v.over = 0

\* struct.pack('!I', v): four bytes, most significant first
PackU32(v) == <<v.hi \div 256, v.hi % 256, v.lo \div 256, v.lo % 256>>

TimeFinally(s) == Return(Close(s))

\* the whole handler: read the clock, add, pack, sendall, except, finally
TimeSend(c, samples) ==
    /\ conn[c].proto = "Time" /\ conn[c].pc = "send"
    /\ Running
    /\ UNCHANGED <<lst, acceptErrors, main>>
    /\ \E t \in samples :
         LET s == [conn[c] EXCEPT !.clock = t]
             current_time == TimePlusOffset(t)
             time_bytes == PackU32(current_time)
         IN
         IF ~CanPackU32(current_time)
         THEN conn' = [conn EXCEPT ![c] = TimeFinally(ExceptError(s, "error"))]
         ELSE
           \/ conn' = [conn EXCEPT ![c] =
                TimeFinally([Op(s, "sendall") EXCEPT
                               !.data = time_bytes, !.wr = @ \o time_bytes])]
           \/ \E exc \in {"timeout", "error"}, n \in PartialLens(time_bytes) :
                conn' = [conn EXCEPT ![c] =
                  TimeFinally(ExceptError(
                    [Op(s, "sendall_" \o exc) EXCEPT
                       !.data = time_bytes,
                       !.wr = @ \o Take(time_bytes, n)], exc))]

(* ------------------------------- Finger ------------------------------- *)

FINGER_BUFSIZE == 1024

SLASH == 47

\* lines 152-159: the listing, after .strip()
ListingText ==
    Str("Login     Name                  TTY      Idle  When\n"
        \o "testuser  Test User             pts/0      -   Feb 16 12:00\n"
        \o "alice     Alice Johnson         pts/1      1h  Feb 16 10:30\n"
        \o "bob       Bob Smith             pts/2      -   Feb 16 11:45\n"
        \o "\n"
        \o "Total users: 3")

\* lines 164-170: the testuser record, after .strip()
TestuserRecord ==
    Str("Login: testuser                         Name: Test User\n"
        \o "Directory: /home/testuser              Shell: /bin/bash\n"
        \o "Last login: Fri Feb 16 12:00:00 2024 from 127.0.0.1\n"
        \o "No mail.\n"
        \o "No Plan.")

\* lines 172-180: the alice record, after .strip()
AliceRecord ==
    Str("Login: alice                            Name: Alice Johnson\n"
        \o "Directory: /home/alice                 Shell: /bin/bash\n"
        \o "Last login: Fri Feb 16 10:30:00 2024 from 10.0.0.100\n"
        \o "Mail forwarded to alice@example.com\n"
        \o "Plan:\n"
        \o "Working on network protocols project.\n"
        \o "Available for collaboration!")

\* f"finger: {username}: no such user"
NoSuchUser(username) == Str("finger: ") \o username \o Str(": no such user")

\* the record of a user the handler knows, lines 163-182
UserResponse(username) ==
    IF username = Str("testuser") THEN TestuserRecord
    ELSE IF username = Str("alice") THEN AliceRecord
    ELSE NoSuchUser(username)

\* the query used as the user name, its leading '/' left in place
FingerResponseKeepSlash(raw) ==
    LET query == Strip(DecodeAsciiIgnore(raw)) IN
    IF query = <<>> THEN ListingText ELSE UserResponse(query)

\* lines 147-182: the response text for the bytes recv returned
FingerResponse(raw) ==
    LET query == Strip(DecodeAsciiIgnore(raw)) IN
    IF query = <<>> THEN ListingText
    ELSE UserResponse(LStripSet(query, {SLASH}))

FingerFinally(s) == Return(Close(s))

\* query lines a client may send: optional '/' or blanks, a name, a line end
FingerQueries ==
    {Str(pre) \o Str(name) \o Str(suf) :
        pre \in {"", "/", "//", " ", "/ "},
        name \in {"", "testuser", "alice", "bob", "nosuchuser", "test user"},
        suf \in {"", "\r\n", "\n", " \r\n"}}
    \cup {Str("test") \o <<255>> \o Str("user\r\n"),
          <<28>> \o Str("alice") \o <<11, 12, 31>>,
          Str("/W testuser\r\n")}

\* the queries of the specifications that run all six protocols
SmallQueries == {<<>>, Str("/testuser\r\n"), Str("bob\r\n")}

\* the clock values of the specifications that run all six protocols
SmallTimes == {<<27371, 0>>, <<31830, 0>>}

\* client.settimeout(30); query = client.recv(1024)...; response chosen
FingerQuery(c, queries) ==
    /\ conn[c].proto = "Finger" /\ conn[c].pc = "query"
    /\ Running
    /\ UNCHANGED <<lst, acceptErrors, main>>
    /\ LET s == [Op(conn[c], "settimeout") EXCEPT !.tmo = FINGER_QUERY_TIMEOUT]
       IN
       \/ \E q \in queries :
            LET raw == Take(q, IF Len(q) < FINGER_BUFSIZE THEN Len(q)
                                ELSE FINGER_BUFSIZE)
            IN conn' = [conn EXCEPT ![c] =
                 [Op(s, IF raw = <<>> THEN "recv_eof" ELSE "recv") EXCEPT
                    !.rd = raw, !.data = FingerResponse(raw) \o CRLF,
                    !.pc = "respond"]]
       \/ \E exc \in {"timeout", "error"} :
            conn' = [conn EXCEPT ![c] =
              FingerFinally(ExceptTimeoutOrError(Op(s, "recv_" \o exc), exc))]

\* client.sendall((response + '\r\n').encode('ascii')), except, finally
FingerSend(c) ==
    /\ conn[c].proto = "Finger" /\ conn[c].pc = "respond"
    /\ Running
    /\ UNCHANGED <<lst, acceptErrors, main>>
    /\ LET s == conn[c] IN
       IF ~CanEncodeAscii(s.data)
       THEN conn' = [conn EXCEPT ![c] =
              FingerFinally(ExceptTimeoutOrError(s, "error"))]
       ELSE
         \/ conn' = [conn EXCEPT ![c] =
              FingerFinally([Op(s, "sendall") EXCEPT !.wr = @ \o s.data])]
         \/ \E exc \in {"timeout", "error"}, n \in PartialLens(s.data) :
              conn' = [conn EXCEPT ![c] =
                FingerFinally(ExceptTimeoutOrError(
                  [Op(s, "sendall_" \o exc) EXCEPT
                     !.wr = @ \o Take(s.data, n)], exc))]

(* --------------------------- specifications --------------------------- *)

\* one Echo session at a time on the Echo listener
NextEcho ==
    \/ Bind("Echo")
    \/ Accept("Echo", {1})
    \/ EchoRecv(1, MaxLen)
    \/ EchoSend(1)

SpecEcho == Init /\ [][NextEcho]_vars

\* one Discard session on the Discard listener
NextDiscard ==
    \/ Bind("Discard")
    \/ Accept("Discard", {1})
    \/ DiscardRecv(1, MaxLen)

SpecDiscard == Init /\ [][NextDiscard]_vars

\* a Chargen session running past one turn of the cycle, and a second one
\* that starts, emits its first lines and ends at any point of the first's run
NextChargen ==
    \/ Bind("Chargen")
    \/ Accept("Chargen", {1, 2})
    \/ ChargenSend(1, MaxLines)
    \/ ChargenSend(2, SmallLines)

SpecChargen == Init /\ [][NextChargen]_vars

\* one Time session
NextTime ==
    \/ Bind("Time")
    \/ Accept("Time", {1})
    \/ TimeSend(1, TimeSamples)

SpecTime == Init /\ [][NextTime]_vars

\* one Finger session
NextFinger ==
    \/ Bind("Finger")
    \/ Accept("Finger", {1})
    \/ FingerQuery(1, FingerQueries)
    \/ FingerSend(1)

SpecFinger == Init /\ [][NextFinger]_vars

\* Echo sessions side by side on the Echo listener
NextIso ==
    \/ Bind("Echo")
    \/ Accept("Echo", Conns)
    \/ \E c \in Conns : EchoRecv(c, SmallLen)
    \/ \E c \in Conns : EchoSend(c)

SpecIso == Init /\ [][NextIso]_vars

\* Echo, Discard and Chargen sessions, one at a time, with the time their
\* calls stay blocked and with what a Chargen client sends
NextIdle ==
    \/ \E p \in {"Echo", "Discard", "Chargen"} : Bind(p)
    \/ \E p \in {"Echo", "Discard", "Chargen"} : Accept(p, {1})
    \/ Wait(1)
    \/ EchoRecv(1, SmallLen)
    \/ EchoSend(1)
    \/ DiscardRecv(1, SmallLen)
    \/ ChargenSend(1, SmallLines)
    \/ ChargenClient(1)

SpecIdle == Init /\ [][NextIdle]_vars

\* the whole server: six listeners and every handler, one connection at a time
Next ==
    \/ Interrupt
    \/ \E p \in Protos : Bind(p)
    \/ \E p \in Protos : Accept(p, {1})
    \/ EchoRecv(1, SmallLen)
    \/ EchoSend(1)
    \/ DiscardRecv(1, SmallLen)
    \/ DaytimeSend(1)
    \/ ChargenSend(1, SmallLines)
    \/ TimeSend(1, SmallTimes)
    \/ FingerQuery(1, SmallQueries)
    \/ FingerSend(1)

Spec == Init /\ [][Next]_vars

(* ------------------------------ properties ---------------------------- *)

Last(seq) == seq[Len(seq)]

Has(seq, x) == \E i \in 1..Len(seq) : seq[i] = x

Count(seq, S) == Cardinality({i \in 1..Len(seq) : seq[i] \in S})

SendOps == {"sendall", "sendall_timeout", "sendall_error"}

RecvOps == {"recv", "recv_eof", "recv_timeout", "recv_error"}

TimeoutOps == {"recv_timeout", "sendall_timeout"}

Sessions(p) == {c \in Conns : conn[c].proto = p /\ conn[c].pc # "orphan"}

\* C1: in every Echo session the bytes written back are, at every point, a
\* prefix of the bytes read, and whenever the session is back at its recv
\* (the Reading state) the bytes written equal the bytes read, in order and
\* unchanged, however the bytes were split into reads.
C1_EchoWritesWhatItRead ==
    \A c \in Sessions("Echo") :
        /\ IsPrefix(conn[c].wr, conn[c].rd)
        /\ conn[c].pc = "recv" => conn[c].wr = conn[c].rd

\* C1 witness: three bytes B, A, B arrived in two reads, both were echoed, and
\* the session is reading again.
C1_Witness ==
    /\ conn[1].proto = "Echo" /\ conn[1].pc = "recv"
    /\ conn[1].rd = <<66, 65, 66>> /\ conn[1].wr = <<66, 65, 66>>
    /\ conn[1].ops = <<"recv", "sendall", "recv", "sendall">>

\* C2: with Echo sessions running side by side, every byte written to a
\* connection was read on that same connection, and no byte sent by the peer
\* of another connection is ever written to it.
C2_NoCrossEcho ==
    \A c \in Sessions("Echo") :
        /\ \A i \in 1..Len(conn[c].wr) : Has(conn[c].rd, conn[c].wr[i])
        /\ \A d \in Conns \ {c} :
             \A i \in 1..Len(conn[c].wr) : conn[c].wr[i] \notin PeerBytes(d)

\* C2 witness: two Echo sessions are open at once, connection 1 got its "A"
\* back and connection 2 its "D".
C2_Witness ==
    /\ conn[1].proto = "Echo" /\ conn[2].proto = "Echo"
    /\ conn[1].pc = "recv" /\ conn[2].pc = "recv"
    /\ conn[1].wr = <<65>> /\ conn[2].wr = <<68>>

\* what a Discard session did last before it closed the connection
DiscardClosedAfter(c) == conn[c].ops[Len(conn[c].ops) - 1]

\* C3 as stated: a Discard session never writes a byte, and it closes the
\* connection only after a zero-length read or a timeout.
C3_DiscardClosesOnEofOrTimeoutOnly ==
    \A c \in Sessions("Discard") :
        /\ conn[c].wr = <<>>
        /\ Count(conn[c].ops, SendOps) = 0
        /\ conn[c].nclose > 0 =>
             DiscardClosedAfter(c) \in {"recv_eof", "recv_timeout"}

\* C3 amended: a Discard session never writes a byte; the connection stays
\* open while the session reads, whatever it has received; and the session
\* closes it only after a zero-length read, a timeout, or a recv that raised
\* another error (such as a connection reset).
C3_DiscardNeverWrites ==
    \A c \in Sessions("Discard") :
        /\ conn[c].wr = <<>>
        /\ Count(conn[c].ops, SendOps) = 0
        /\ conn[c].pc = "recv" => conn[c].nclose = 0
        /\ conn[c].nclose > 0 =>
             DiscardClosedAfter(c) \in {"recv_eof", "recv_timeout", "recv_error"}

\* C3 witness: a Discard session read A, B, A in three reads, wrote nothing
\* and closed when the peer closed.
C3_Witness ==
    /\ conn[1].proto = "Discard" /\ conn[1].pc = "done"
    /\ conn[1].rd = <<65, 66, 65>> /\ conn[1].wr = <<>>
    /\ conn[1].ops = <<"recv", "recv", "recv", "recv_eof", "close">>

\* C4: in each of the six handlers, a session that has ended (on any path:
\* completion, peer close, timeout, I/O error, any other exception) has closed
\* its connection, close being its last call; no session closes twice, and a
\* session that has not ended has not closed.
C4_ClosedOnceOnEveryExit ==
    \A p \in Protos : \A c \in Sessions(p) :
        /\ conn[c].nclose <= 1
        /\ conn[c].pc = "done" =>
             conn[c].nclose = 1 /\ Last(conn[c].ops) = "close"
        /\ conn[c].pc # "done" => conn[c].nclose = 0

\* C4 witness: a Daytime session whose sendall raised after part of the line
\* went out has logged the error and closed the connection.
C4_Witness ==
    /\ conn[1].proto = "Daytime" /\ conn[1].pc = "done"
    /\ conn[1].ops = <<"sendall_error", "close">>
    /\ conn[1].log = <<"error">> /\ conn[1].nclose = 1
    /\ Len(conn[1].wr) = 2

\* C5: in every handler, a recv or sendall that timed out is followed by
\* close and by nothing else; a Finger session whose query read timed out has
\* written nothing.
C5_TimeoutThenCloseOnly ==
    \A p \in Protos : \A c \in Sessions(p) :
        /\ \A i \in 1..Len(conn[c].ops) :
             conn[c].ops[i] \in TimeoutOps =>
                /\ Len(conn[c].ops) = i + 1
                /\ conn[c].ops[i + 1] = "close"
        /\ (p = "Finger" /\ Has(conn[c].ops, "recv_timeout")) =>
             conn[c].wr = <<>> /\ Count(conn[c].ops, SendOps) = 0

\* C5 witness: a Finger session set its 30-second timeout, the query read
\* timed out, and the session closed without a response.
C5_Witness ==
    /\ conn[1].proto = "Finger" /\ conn[1].pc = "done"
    /\ conn[1].ops = <<"settimeout", "recv_timeout", "close">>
    /\ conn[1].log = <<"info_timeout">> /\ conn[1].wr = <<>>

\* line k of the Chargen stream as the claim gives it: 72 characters, the
\* i-th with code ((i + k) mod 94) + 33, then CR LF
ClaimedChargenLine(k) == [i \in 1..72 |-> ((i - 1 + k) % 94) + 33] \o <<13, 10>>

\* C6: in every Chargen session, whatever another Chargen session does, the
\* line emitted k-th (counting from 0) is the claimed line k; the offset is 0 at
\* the start, is the number of lines emitted modulo 94, so grows by one a line
\* and stays in 0..93; and line 94 is line 0 again.
C6_ChargenPattern ==
    \A c \in Sessions("Chargen") :
        /\ conn[c].offset \in 0..93
        /\ conn[c].offset = conn[c].nlines % 94
        /\ (conn[c].nlines > 0 /\ Last(conn[c].ops) = "sendall") =>
             /\ conn[c].wr = ClaimedChargenLine(conn[c].nlines - 1)
             /\ conn[c].nlines = Count(conn[c].ops, {"sendall"})
        /\ (conn[c].nlines = 95 /\ Last(conn[c].ops) = "sendall") =>
             conn[c].wr = ClaimedChargenLine(0)

\* C6 witness: session 1 has just emitted line 94, which is line 0 again, while
\* session 2, started later, has emitted its line 1.
C6_Witness ==
    /\ conn[1].proto = "Chargen" /\ conn[2].proto = "Chargen"
    /\ conn[1].pc = "send" /\ conn[2].pc = "send"
    /\ conn[1].nlines = 95 /\ conn[1].offset = 1
    /\ conn[1].wr = ClaimedChargenLine(0)
    /\ conn[2].nlines = 2 /\ conn[2].wr = ClaimedChargenLine(1)

\* (t + 2,208,988,800) mod 2^32 as four bytes, most significant first, for a
\* Unix time t given as <<high half, low half>>
ClaimedTimeBytes(t) ==
    LET lo == t[2] + 32384
        hi == (t[1] + 33706 + (lo \div 65536)) % 65536
    IN <<hi \div 256, hi % 256, (lo % 65536) \div 256, lo % 256>>

\* C7 as stated: for every Unix time t, also when t + 2,208,988,800 is 2^32 or
\* more, a Time session that ended without a failed sendall has written
\* exactly the 4 bytes of (t + 2,208,988,800) mod 2^32, big-endian.
C7_TimeWrapsMod32 ==
    \A c \in Sessions("Time") :
        (conn[c].pc = "done"
            /\ Count(conn[c].ops, {"sendall_timeout", "sendall_error"}) = 0) =>
          /\ Len(conn[c].wr) = 4
          /\ conn[c].wr = ClaimedTimeBytes(conn[c].clock)

\* the query as the claims read it: decoded, trimmed of surrounding
\* whitespace and line ends
TrimmedQuery(c) == Strip(DecodeAsciiIgnore(conn[c].rd))

\* the trimmed query without its leading '/' characters
QueryToken(c) == LStripSet(TrimmedQuery(c), {47})

RECURSIVE SplitLines(_)
\* the lines of a text, split at "\n"
SplitLines(text) ==
    IF \A i \in 1..Len(text) : text[i] # 10 THEN <<text>>
    ELSE LET n == Min({i \in 1..Len(text) : text[i] = 10})
         IN <<Take(text, n - 1)>> \o SplitLines(Drop(text, n))

\* the first blank-delimited word of a line
FirstWord(line) ==
    IF \A i \in 1..Len(line) : line[i] # 32 THEN line
    ELSE Take(line, Min({i \in 1..Len(line) : line[i] = 32}) - 1)

\* the user rows of the listing: the lines between the header and the blank
\* line that precedes the total
ListingRows ==
    LET lines == SplitLines(ListingText)
        blank == Min({i \in 1..Len(lines) : lines[i] = <<>>})
    IN {lines[i] : i \in 2..(blank - 1)}

\* the logins the listing shows: testuser, alice, bob
ListedLogins == {FirstWord(row) : row \in ListingRows}

\* a Finger session that has chosen its response
Responding(c) == conn[c].proto = "Finger" /\ conn[c].pc \in {"respond", "done"}
                 /\ Count(conn[c].ops, {"recv", "recv_eof"}) = 1

\* C8: for every query received the Finger handler makes one sendall of one
\* response that ends in CR LF, and closes after it; when the sendall completes
\* the bytes on the wire are that response.  The response is the listing with
\* its total of users for an empty trimmed query, the testuser record for
\* "testuser" and "/testuser", and "finger: <username>: no such user" for a
\* token that is no user of the listing.
C8_FingerResponseSelection ==
    \A c \in Sessions("Finger") :
        /\ Count(conn[c].ops, SendOps) <= 1
        /\ Responding(c) =>
             /\ Len(conn[c].data) >= 2
             /\ Drop(conn[c].data, Len(conn[c].data) - 2) = <<13, 10>>
             /\ TrimmedQuery(c) = <<>> =>
                  /\ conn[c].data = ListingText \o <<13, 10>>
                  /\ Last(SplitLines(ListingText)) =
                       Str("Total users: ") \o <<48 + Cardinality(ListingRows)>>
             /\ TrimmedQuery(c) \in {Str("testuser"), Str("/testuser")} =>
                  conn[c].data = TestuserRecord \o <<13, 10>>
             /\ (TrimmedQuery(c) # <<>> /\ QueryToken(c) \notin ListedLogins) =>
                  conn[c].data = Str("finger: ") \o QueryToken(c)
                                   \o Str(": no such user\r\n")
             /\ conn[c].pc = "done" =>
                  /\ Count(conn[c].ops, SendOps) = 1
                  /\ Last(conn[c].ops) = "close"
                  /\ Has(conn[c].ops, "sendall") => conn[c].wr = conn[c].data

\* C8 witness: the query "/testuser" CR LF was answered with the testuser
\* record and the connection closed.
C8_Witness ==
    /\ conn[1].proto = "Finger" /\ conn[1].pc = "done"
    /\ conn[1].rd = Str("/testuser\r\n")
    /\ conn[1].wr = TestuserRecord \o <<13, 10>>
    /\ conn[1].ops = <<"settimeout", "recv", "sendall", "close">>

\* C9 as stated: every login of the listing, queried by its exact name, gets
\* a multi-line record, and the "no such user" line goes only to tokens that
\* are not in the listing.
C9_ListedUsersHaveRecords ==
    \A c \in Sessions("Finger") :
        (Responding(c) /\ TrimmedQuery(c) # <<>>) =>
          LET nosuch == Str("finger: ") \o QueryToken(c)
                          \o Str(": no such user\r\n")
          IN /\ QueryToken(c) \in ListedLogins =>
                  /\ conn[c].data # nosuch
                  /\ Len(SplitLines(conn[c].data)) > 2
             /\ conn[c].data = nosuch => QueryToken(c) \notin ListedLogins

\* C10: once the Echo listener has been through its accept loop, whether the
\* iteration failed (an error is in the log) or succeeded (a connection was
\* accepted), it is still in the loop, and with a connection pending it can
\* still accept it and start a session for it.
C10_AcceptFailuresNonFatal ==
    (acceptErrors > 0 \/ \E c \in Conns : conn[c].pc # "free") =>
       /\ lst["Echo"] = "accepting"
       /\ (\E c \in Conns : conn[c].pc = "free") =>
            ENABLED (/\ Accept("Echo", Conns)
                     /\ \E c \in Conns : /\ conn[c].pc = "free"
                                         /\ conn'[c].pc = "recv")

\* C10 witness: the loop failed twice, once after accept had returned the
\* connection of slot 1 (slots fill in order), and the connection accepted
\* after that, in slot 2, has an Echo session that has echoed a byte.
C10_Witness ==
    /\ acceptErrors = 2 /\ lst["Echo"] = "accepting"
    /\ conn[1].pc = "orphan"
    /\ conn[2].proto = "Echo" /\ conn[2].pc = "recv" /\ conn[2].wr = <<67>>

\* C11: when bind or listen has failed for a listener, only that listener is
\* dead: the process runs on until it is interrupted from outside, and while
\* it runs each other listener that has not bound yet can still bind and
\* reach its accept loop, and each that has bound can accept a pending
\* connection and start its handler for it.
C11_BindFailureIsLocal ==
    \A p \in Protos :
        lst[p] = "dead" =>
          /\ main \in {"running", "interrupted"}
          /\ Running =>
               \A q \in Protos \ {p} :
                  /\ lst[q] = "init" =>
                       ENABLED (Bind(q) /\ lst'[q] = "accepting"
                                        /\ lst'[p] = "dead")
                  /\ (lst[q] = "accepting" /\ conn[1].pc = "free") =>
                       ENABLED (Accept(q, {1}) /\ conn'[1].proto = q
                                               /\ conn'[1].pc = EntryPc(q))

\* C11 witness: the Echo listener failed to bind; the other five are in
\* their accept loops, the process runs, and the Finger listener has served
\* a connection.
C11_Witness ==
    /\ lst["Echo"] = "dead"
    /\ \A q \in Protos \ {"Echo"} : lst[q] = "accepting"
    /\ Running
    /\ conn[1].proto = "Finger" /\ conn[1].pc = "done"
    /\ conn[1].ops = <<"settimeout", "recv", "sendall", "close">>

\* a session that ended on a timeout, an I/O error or another exception
Failed(s) == s.pc = "done" /\ s.log # <<>>

\* the step in which session c fails changes nothing but session c
FailureFrame(c) ==
    (~Failed(conn[c]) /\ Failed(conn'[c])) =>
       /\ \A d \in Conns \ {c} : conn'[d] = conn[d]
       /\ lst' = lst /\ acceptErrors' = acceptErrors /\ main' = main

\* with a failed session behind, the listener and the other sessions go on
AfterFailure ==
    (\E c \in Conns : Failed(conn[c])) =>
       /\ lst["Echo"] = "accepting"
       /\ (\E c \in Conns : conn[c].pc = "free") =>
            ENABLED (/\ Accept("Echo", Conns)
                     /\ \E c \in Conns : conn[c].pc = "free"
                                         /\ conn'[c] = NewSession("Echo"))
       /\ \A d \in Sessions("Echo") :
            /\ conn[d].pc = "recv" =>
                 /\ conn[d].nclose = 0
                 /\ ENABLED EchoRecv(d, SmallLen)
            /\ conn[d].pc = "send" =>
                 /\ conn[d].nclose = 0
                 /\ ENABLED (EchoSend(d) /\ conn'[d].pc = "recv"
                                         /\ conn'[d].wr = conn'[d].rd)

\* C12: the step in which an Echo session fails (recv or sendall timed out or
\* raised) changes no other session, not the listener, not the process; and
\* whenever some session has failed, the listener is in its accept loop and can
\* accept and dispatch a pending connection, and every other session in flight
\* still has its connection open and can take its next read or write.
C12_SessionFailuresAreLocal == [](AfterFailure) /\ [][\A c \in Conns : FailureFrame(c)]_vars

\* C12 witness: the sendall of session 1 raised after it had read a byte; the
\* session logged the error and closed; session 2, in flight all along, has
\* since read and echoed its byte and is reading again.
C12_Witness ==
    /\ conn[1].proto = "Echo" /\ conn[1].pc = "done"
    /\ conn[1].ops = <<"recv", "sendall_error", "close">>
    /\ conn[1].log = <<"error">>
    /\ conn[2].proto = "Echo" /\ conn[2].pc = "recv"
    /\ conn[2].ops = <<"recv", "sendall">> /\ conn[2].wr = conn[2].rd
    /\ lst["Echo"] = "accepting"

\* C13: while the Echo listener is in its accept loop with sessions in
\* flight, whatever they are doing (blocked in recv, blocked in sendall), a
\* pending connection can be accepted at once: the accept gives it a session
\* of its own, at the handler's first statement, and leaves the sessions in
\* flight as they are.
C13_AcceptNeverWaits ==
    (/\ lst["Echo"] = "accepting"
     /\ InFlight("Echo") # {}
     /\ \E c \in Conns : conn[c].pc = "free") =>
       ENABLED (/\ Accept("Echo", Conns)
                /\ \E c \in Conns :
                     /\ conn[c].pc = "free"
                     /\ conn'[c] = NewSession("Echo")
                     /\ \A d \in InFlight("Echo") : conn'[d] = conn[d])

\* C13 witness: session 1 is blocked in the sendall of the byte it read, and
\* the connection that came in behind it has a session of its own that is
\* about to read.
C13_Witness ==
    /\ lst["Echo"] = "accepting"
    /\ conn[1].proto = "Echo" /\ conn[1].pc = "send" /\ conn[1].data = <<65>>
    /\ conn[2] = NewSession("Echo")

\* the calls on a connection are those of one run of echo_handler: recv and
\* sendall in turn, recv first, a sendall only for data a recv returned
OneEchoHandler(ops) ==
    \A i \in 1..Len(ops) :
       /\ ops[i] \in RecvOps => (i = 1 \/ ops[i - 1] = "sendall")
       /\ ops[i] \in SendOps => (i > 1 /\ ops[i - 1] = "recv")

\* C14: with Echo sessions side by side, the calls made on each connection
\* are those of the one handler run it was dispatched to (a connection that
\* got no handler is never read or written), close is the last call on every
\* connection, so nothing is read or written after it, and a session has
\* ended exactly when it has closed its connection.
C14_ConnectionOwnership ==
    \A c \in Conns :
        /\ \A i \in 1..Len(conn[c].ops) :
             conn[c].ops[i] = "close" => i = Len(conn[c].ops)
        /\ conn[c].nclose = Count(conn[c].ops, {"close"})
        /\ conn[c].pc \in {"free", "orphan"} =>
             Count(conn[c].ops, RecvOps \cup SendOps) = 0
        /\ c \in Sessions("Echo") =>
             /\ OneEchoHandler(conn[c].ops)
             /\ conn[c].pc = "done" <=> conn[c].nclose = 1

\* C14 witness: session 1 read, echoed, read the end of the stream and
\* closed, all on its own connection, while session 2 is in flight with the
\* byte it read on its own.
C14_Witness ==
    /\ conn[1].proto = "Echo" /\ conn[1].pc = "done"
    /\ conn[1].ops = <<"recv", "sendall", "recv_eof", "close">>
    /\ conn[1].rd = <<66>> /\ conn[1].wr = <<66>>
    /\ conn[2].proto = "Echo" /\ conn[2].pc = "send"
    /\ conn[2].ops = <<"recv">> /\ conn[2].rd = <<67>>

\* C15 as stated: in each of the six handlers, a session whose recv or
\* sendall timed out has logged exactly one line, an informational timeout
\* line and no error line, and has closed the connection; so also for the one
\* sendall of Daytime and of Time.
C15_TimeoutsAreInformational ==
    \A p \in Protos : \A c \in Sessions(p) :
        Count(conn[c].ops, TimeoutOps) > 0 =>
          /\ conn[c].log = <<"info_timeout">>
          /\ conn[c].pc = "done" /\ conn[c].nclose = 1

\* C16 as stated: in a Finger session the read of the query is bounded by
\* 30 seconds; once the query has been read, the write of the response runs
\* under the general timeout of 900 seconds, and times out only after 900
\* seconds.
C16_FingerDeadlineQueryOnly ==
    \A c \in Sessions("Finger") :
        /\ Has(conn[c].ops, "recv_timeout") => conn[c].blocked = 30
        /\ conn[c].pc = "respond" => conn[c].tmo = 900
        /\ Has(conn[c].ops, "sendall_timeout") => conn[c].blocked = 900

\* C17: in an Echo, Discard or Chargen session the socket runs under the
\* 900-second timeout; the time a call has used of it is the time that call
\* itself has been blocked, so every call starts with the whole 900 seconds
\* whatever the age of the session; a session has timed out exactly when one
\* recv or sendall had been blocked for 900 seconds, and then it is closed.
C17_IdleTimeoutPerCall ==
    \A p \in {"Echo", "Discard", "Chargen"} : \A c \in Sessions(p) :
        /\ conn[c].tmo = 900
        /\ conn[c].waited = conn[c].blocked
        /\ conn[c].blocked <= 900
        /\ Count(conn[c].ops, TimeoutOps) > 0 <=> conn[c].blocked = 900
        /\ conn[c].blocked = 900 => conn[c].pc = "done"

\* C17 witness: an Echo session 1350 seconds old, none of whose three calls
\* was blocked for more than 450 seconds, is still open in its recv, with no
\* timeout behind it.
C17_Witness ==
    /\ conn[1].proto = "Echo" /\ conn[1].pc = "recv"
    /\ conn[1].ops = <<"recv", "sendall">>
    /\ conn[1].age = 13500 /\ conn[1].blocked = 450
    /\ conn[1].nclose = 0 /\ conn[1].log = <<>>

\* the calls of a Chargen session before its last two
ChargenEarlierOps(c) == Take(conn[c].ops, Len(conn[c].ops) - 2)

\* C18: a Chargen session never calls recv.  While it streams, all it has
\* done is sendall after sendall, each returned; whatever the client has sent
\* or shut down, and however old the session is, its connection is open, the
\* sleeps between the lines have aged the session but used none of the
\* socket's timeout (only the time blocked in the sendall in progress counts,
\* and that is short of 900 seconds), and the next line can go out.  When it has ended, it ended on a sendall that timed out or
\* raised, followed by close.
C18_ChargenTermination ==
    \A c \in Sessions("Chargen") :
        /\ Count(conn[c].ops, RecvOps) = 0
        /\ conn[c].pc \in {"send", "done"}
        /\ conn[c].pc = "send" =>
             /\ Count(conn[c].ops, {"sendall"}) = Len(conn[c].ops)
             /\ conn[c].nlines = Len(conn[c].ops)
             /\ conn[c].nclose = 0 /\ conn[c].log = <<>>
             /\ conn[c].age >= conn[c].nlines
             /\ conn[c].waited = conn[c].blocked /\ conn[c].waited < 900
             /\ ENABLED (/\ ChargenSend(c, conn[c].nlines + 1)
                         /\ conn'[c].pc = "send"
                         /\ conn'[c].nlines = conn[c].nlines + 1)
        /\ conn[c].pc = "done" =>
             /\ Len(conn[c].ops) >= 2
             /\ Last(conn[c].ops) = "close"
             /\ DiscardClosedAfter(c) \in {"sendall_timeout", "sendall_error"}
             /\ Count(ChargenEarlierOps(c), {"sendall"})
                  = Len(ChargenEarlierOps(c))

\* C18 witness: the client sent bytes before the first line and shut down
\* its side after it; the session, 450 seconds old, has sent a second line
\* since and is still streaming.
C18_Witness ==
    /\ conn[1].proto = "Chargen" /\ conn[1].pc = "send"
    /\ conn[1].inq = << <<"data", 0>>, <<"fin", 1>> >>
    /\ conn[1].nlines = 2 /\ conn[1].ops = <<"sendall", "sendall">>
    /\ conn[1].age > 4500 /\ conn[1].nclose = 0

\* C19 as stated: in an Echo, Discard or Finger session, once a recv has
\* returned zero bytes the session makes no sendall, logs no error, and the
\* one call it still makes is close.
C19_PeerCloseEndsSession ==
    \A p \in {"Echo", "Discard", "Finger"} : \A c \in Sessions(p) :
        \A i \in 1..Len(conn[c].ops) :
           conn[c].ops[i] = "recv_eof" =>
              /\ \A j \in (i + 1)..Len(conn[c].ops) : conn[c].ops[j] = "close"
              /\ ~Has(conn[c].log, "error")
              /\ conn[c].pc = "done" => Last(conn[c].ops) = "close"

\* C20 as stated: every connection accept has returned either has a handler
\* session of its own (which is running, or has closed the connection), or
\* has been closed; none is open with no session.
C20_NoOrphanedConnections ==
    \A c \in Conns :
        conn[c].pc # "free" =>
           \/ /\ c \in Sessions(conn[c].proto)
              /\ conn[c].pc = "done" => conn[c].nclose = 1
           \/ conn[c].nclose = 1

====
